---------------------------- MODULE Spec2Model ----------------------------
(***************************************************************************)
(* Tick-based simulators of the repository: the road-condition vehicle,    *)
(* the odometer, the climate controller and the tire-pressure monitor.     *)
(*                                                                         *)
(* Floating-point fields are modelled in fixed point:                      *)
(*   vehicle  : speed in km/h, road_slope in degrees, tire_condition and   *)
(*              braking_efficiency in hundredths;                          *)
(*   odometer : speed in km/h, hours in tenths of an hour, distances in    *)
(*              tenths of a km, fuel_efficiency in km/l, fuel in ml;       *)
(*   climate  : temperatures in hundredths of a degree Celsius;            *)
(*   tpms     : pressures in quarters of a PSI.                            *)
(* Random draws (rand::Rng::gen_range, gen_bool) are nondeterministic      *)
(* choices over finite samples of the ranges the code draws from.          *)
(***************************************************************************)
EXTENDS Integers, Sequences, FiniteSets, TLC

VARIABLES
    vehicle,            \* road_condition_monitor: the Vehicle struct
    road_pc,            \* position of the road monitor's run_simulation
    road_condition,     \* run_simulation: the road condition drawn last
    traction,           \* run_simulation: the traction computed last
    stopping_distance,  \* run_simulation: the stopping distance computed last
    odometer,           \* odometer_simulation: the Odometer struct
    odo_calls,          \* history: the calls made on the odometer, in order
    odo_pc,             \* position of the odometer's main
    hours_passed,       \* main of the odometer: hours_passed
    time_data,          \* main of the odometer: the four Vecs, each kept as
    distance_data,      \*   its length and its last element
    trip_data,
    fuel_data,
    system,             \* climate_control: the ClimateControlSystem struct
    climate_pc,         \* position of run_simulation in its loop
    climate_out,        \* the message adjust_temperature printed last
    resamples,          \* number of simulate_external_conditions calls so far
    first_iteration,    \* run_simulation is in the first iteration of its loop
    start_temperature,  \* history: current_temperature before the first adjust
    adjust_calls,       \* history: number of adjust_temperature calls counted
    tpms,               \* tire_pressure_monitoring_system: the TPMS struct
    last_call,          \* history: the TPMS method called last
    prev_dtc,           \* history: dtc_triggered before the last TPMS call
    changes,            \* number of simulate_pressure_change calls so far
    initial_pressures,  \* history: the pressures TPMS::new was given
    drift,              \* history: per tire, the sum of the deltas drawn so far
    tpms_pc,            \* position of the tire monitor's main in its loop
    tpms_iter,          \* iterations of main's for loop started so far
    displayed,          \* the lines display_warnings printed last
    dtc_report          \* the DTC line main printed last

road_vars == <<road_pc, road_condition, traction, stopping_distance>>
vehicle_vars == <<vehicle, road_vars>>
odometer_main_vars ==
    <<odo_pc, hours_passed, time_data, distance_data, trip_data, fuel_data>>
odometer_vars == <<odometer, odo_calls, odometer_main_vars>>
climate_vars ==
    <<system, climate_pc, climate_out, resamples, first_iteration,
      start_temperature, adjust_calls>>
tpms_history == <<initial_pressures, drift>>
tpms_vars ==
    <<tpms, last_call, prev_dtc, changes, tpms_history, tpms_pc, tpms_iter, displayed,
      dtc_report>>
vars == <<vehicle_vars, odometer_vars, climate_vars, tpms_vars>>

Abs(x) == IF x < 0 THEN -x ELSE x

\* Quotient of two fixed-point numbers, rounded to nearest (d > 0).
FDiv(n, d) == (2 * n + d) \div (2 * d)

(***************************************************************************)
(* Road-condition monitor: Vehicle                                         *)
(***************************************************************************)

\* f32::clamp as used by the three update methods.
Clamp(x, lo, hi) == IF x < lo THEN lo ELSE IF x > hi THEN hi ELSE x

\* Samples of gen_range(-10.0..10.0), gen_range(-5.0..5.0), gen_range(-0.02..0.0)
\* (half-open: the upper end is never drawn).
SpeedChanges == {-10, -3, 0, 4, 9}
SlopeChanges == {-5, -2, 0, 1, 4}
Wears == {-2, -1}

VehicleNew ==
    [speed |-> 50, braking_efficiency |-> 90, tire_condition |-> 90, road_slope |-> 0]

UpdateSpeedNoClamp ==
    /\ \E speed_change \in SpeedChanges :
          vehicle' = [vehicle EXCEPT !.speed = vehicle.speed + speed_change]
    /\ UNCHANGED road_vars
    /\ UNCHANGED <<odometer_vars, climate_vars, tpms_vars>>

UpdateSpeed ==
    /\ \E speed_change \in SpeedChanges :
          vehicle' = [vehicle EXCEPT !.speed = Clamp(vehicle.speed + speed_change, 0, 150)]
    /\ UNCHANGED road_vars
    /\ UNCHANGED <<odometer_vars, climate_vars, tpms_vars>>

UpdateRoadSlope ==
    /\ \E slope_change \in SlopeChanges :
          vehicle' = [vehicle EXCEPT
                          !.road_slope = Clamp(vehicle.road_slope + slope_change, -10, 10)]
    /\ UNCHANGED road_vars
    /\ UNCHANGED <<odometer_vars, climate_vars, tpms_vars>>

UpdateTireConditionRegrow ==
    /\ \E wear \in Wears :
          vehicle' = [vehicle EXCEPT
                          !.tire_condition = Clamp(vehicle.tire_condition - wear, 50, 100)]
    /\ UNCHANGED road_vars
    /\ UNCHANGED <<odometer_vars, climate_vars, tpms_vars>>

UpdateTireCondition ==
    /\ \E wear \in Wears :
          vehicle' = [vehicle EXCEPT
                          !.tire_condition = Clamp(vehicle.tire_condition + wear, 50, 100)]
    /\ UNCHANGED road_vars
    /\ UNCHANGED <<odometer_vars, climate_vars, tpms_vars>>

\* RoadCondition::random, and the factor run_simulation's match gives each
\* condition (1.0, 0.7, 0.3), in tenths.
RoadConditions == {"Dry", "Wet", "Icy"}
RoadFactor(condition) ==
    IF condition = "Dry" THEN 10 ELSE IF condition = "Wet" THEN 7 ELSE 3

\* Samples of the speed and slope draws for the ticks of run_simulation.
SimSpeedChanges == {-10, 4}
SimSlopeChanges == {-5, 4}

AdjustForConditionSteep(v, factor) ==
    LET adjusted_traction == factor * v.tire_condition
    IN IF v.road_slope > 0 THEN adjusted_traction * (45 - 10 * v.road_slope)
       ELSE IF v.road_slope < 0 THEN adjusted_traction * (45 + (-v.road_slope))
       ELSE adjusted_traction * 45

\* Vehicle::adjust_for_condition: the factor in tenths, the result in units
\* of 1/45000 (tenths * hundredths * forty-fifths): 1 - slope/45 is
\* (45 - slope)/45.
AdjustForCondition(v, factor) ==
    LET adjusted_traction == factor * v.tire_condition
    IN IF v.road_slope > 0 THEN adjusted_traction * (45 - v.road_slope)
       ELSE IF v.road_slope < 0 THEN adjusted_traction * (45 + (-v.road_slope))
       ELSE adjusted_traction * 45

\* Vehicle::calculate_stopping_distance, in millimetres rounded down:
\* velocity in cm/s, the divisor 2 * traction * 9.81 * braking_efficiency in
\* thousandths of m/s^2. An f32 division by zero does not panic: it gives an
\* infinity or a NaN, here a value that is not finite.
CalculateStoppingDistance(v, t) ==
    LET velocity == FDiv(v.speed * 1000, 36)
        divisor == FDiv(FDiv(2 * t * 981, 4500) * v.braking_efficiency, 100)
        square == velocity * velocity * 100
    IN IF divisor = 0 THEN [finite |-> FALSE, value |-> 0]
       ELSE IF divisor < 0 THEN [finite |-> TRUE, value |-> -(square \div (-divisor))]
       ELSE [finite |-> TRUE, value |-> square \div divisor]

\* One iteration of the loop of the road monitor's run_simulation.
RoadTick ==
    /\ \E condition \in RoadConditions, speed_change \in SimSpeedChanges,
          slope_change \in SimSlopeChanges, wear \in Wears :
          LET v == [vehicle EXCEPT
                        !.speed = Clamp(vehicle.speed + speed_change, 0, 150),
                        !.road_slope = Clamp(vehicle.road_slope + slope_change, -10, 10),
                        !.tire_condition = Clamp(vehicle.tire_condition + wear, 50, 100)]
              t == AdjustForCondition(v, RoadFactor(condition))
          IN /\ vehicle' = v
             /\ road_condition' = condition
             /\ traction' = t
             /\ stopping_distance' = CalculateStoppingDistance(v, t)
    /\ road_pc' = "loop"
    /\ UNCHANGED <<odometer_vars, climate_vars, tpms_vars>>

(***************************************************************************)
(* Odometer                                                                *)
(***************************************************************************)

\* Bound on the number of calls made on one odometer.
MaxOdoCalls == 4

\* Inputs of drive(speed, hours) and of Odometer::new(fuel_efficiency).
DriveSpeeds == {-20, 0, 60, 119}
DriveHours == {5, 10}
FuelEfficiencies == {10, 15}

OdometerNew(fuel_efficiency) ==
    [total_kilometers |-> 0, trip_meter |-> 0, fuel_consumed |-> 0,
     fuel_efficiency |-> fuel_efficiency]

DriveTripOnly(o, speed, hours) ==
    LET distance == speed * hours
    IN [o EXCEPT !.total_kilometers = @ + distance,
                 !.trip_meter = distance,
                 !.fuel_consumed = @ + FDiv(distance * 100, o.fuel_efficiency)]

\* Odometer::drive: distances in tenths of a km, fuel in ml.
Drive(o, speed, hours) ==
    LET distance == speed * hours
    IN [o EXCEPT !.total_kilometers = @ + distance,
                 !.trip_meter = @ + distance,
                 !.fuel_consumed = @ + FDiv(distance * 100, o.fuel_efficiency)]

ResetAllMeters(o) == [o EXCEPT !.trip_meter = 0, !.total_kilometers = 0]

ResetTripAndFuel(o) == [o EXCEPT !.trip_meter = 0, !.fuel_consumed = 0]

\* Odometer::reset_trip_meter
ResetTripMeter(o) == [o EXCEPT !.trip_meter = 0]

DriveCall ==
    /\ Len(odo_calls) < MaxOdoCalls
    /\ \E speed \in DriveSpeeds, hours \in DriveHours :
          /\ odometer' = Drive(odometer, speed, hours)
          /\ odo_calls' = Append(odo_calls, [op |-> "drive", speed |-> speed, hours |-> hours])
    /\ UNCHANGED odometer_main_vars
    /\ UNCHANGED <<vehicle_vars, climate_vars, tpms_vars>>

ResetTripMeterCall ==
    /\ Len(odo_calls) < MaxOdoCalls
    /\ odometer' = ResetTripMeter(odometer)
    /\ odo_calls' = Append(odo_calls, [op |-> "reset", speed |-> 0, hours |-> 0])
    /\ UNCHANGED odometer_main_vars
    /\ UNCHANGED <<vehicle_vars, climate_vars, tpms_vars>>

\* main of the odometer: total_hours = 24.0 and step = 0.5, in tenths of an hour.
total_hours == 240
step == 5

\* Samples of gen_range(40.0..120.0).
MainSpeeds == {40, 75, 119}

\* A Vec<f64> kept as its length and its last element: vec![] and push.
EmptyVec == [len |-> 0, last |-> 0]
Push(v, x) == [len |-> v.len + 1, last |-> x]

LoopConditionInclusive == hours_passed <= total_hours

\* The condition of main's while loop.
LoopCondition == hours_passed < total_hours

\* One iteration of main's while loop.
OdoMainDrive ==
    /\ odo_pc = "while"
    /\ LoopCondition
    /\ \E speed \in MainSpeeds : odometer' = Drive(odometer, speed, step)
    /\ hours_passed' = hours_passed + step
    /\ time_data' = Push(time_data, hours_passed')
    /\ distance_data' = Push(distance_data, odometer'.total_kilometers)
    /\ trip_data' = Push(trip_data, odometer'.trip_meter)
    /\ fuel_data' = Push(fuel_data, odometer'.fuel_consumed)
    /\ UNCHANGED <<odo_pc, odo_calls>>
    /\ UNCHANGED <<vehicle_vars, climate_vars, tpms_vars>>

\* The loop is left; display_kilometers prints the final readings.
OdoMainExit ==
    /\ odo_pc = "while"
    /\ ~LoopCondition
    /\ odo_pc' = "reset"
    /\ UNCHANGED <<odometer, odo_calls, hours_passed, time_data, distance_data,
                   trip_data, fuel_data>>
    /\ UNCHANGED <<vehicle_vars, climate_vars, tpms_vars>>

\* reset_trip_meter, then display_kilometers again.
OdoMainReset ==
    /\ odo_pc = "reset"
    /\ odometer' = ResetTripMeter(odometer)
    /\ odo_pc' = "plot"
    /\ UNCHANGED <<odo_calls, hours_passed, time_data, distance_data, trip_data, fuel_data>>
    /\ UNCHANGED <<vehicle_vars, climate_vars, tpms_vars>>

\* plot_data reads the four slices.
OdoMainPlot ==
    /\ odo_pc = "plot"
    /\ odo_pc' = "done"
    /\ UNCHANGED <<odometer, odo_calls, hours_passed, time_data, distance_data,
                   trip_data, fuel_data>>
    /\ UNCHANGED <<vehicle_vars, climate_vars, tpms_vars>>

(***************************************************************************)
(* Climate control                                                         *)
(***************************************************************************)

\* Bounds: resamples in one run of run_simulation; for the calls made directly
\* on a system, the distance (in steps) of the starting temperature from the
\* desired one and the number of adjust_temperature calls.
MaxResamples == 3
MaxK == 10
MaxAdjustCalls == 12

\* Samples of gen_range(18.0..26.0) and gen_range(-0.5..0.5).
DesiredSamples == {1800, 1930, 2000, 2500, 2595}
ExternalChanges == {-50, 25}

\* Starting temperatures off the half-degree grid around the desired one.
GridOffsets == {0, 20}

ClimateControlSystemNewExternal(initial_temperature, external_temperature) ==
    [current_temperature |-> initial_temperature,
     desired_temperature |-> external_temperature,
     external_temperature |-> external_temperature]

\* ClimateControlSystem::new
ClimateControlSystemNew(initial_temperature, external_temperature) ==
    [current_temperature |-> initial_temperature,
     desired_temperature |-> initial_temperature,
     external_temperature |-> external_temperature]

AdjustTemperatureOvershoot ==
    \/ /\ system.current_temperature < system.desired_temperature
       /\ system' = [system EXCEPT !.current_temperature = @ + 100]
       /\ climate_out' = "Heating up"
    \/ /\ system.current_temperature > system.desired_temperature
       /\ system' = [system EXCEPT !.current_temperature = @ - 50]
       /\ climate_out' = "Cooling down"
    \/ /\ system.current_temperature = system.desired_temperature
       /\ system' = system
       /\ climate_out' = "Desired temperature reached"

\* ClimateControlSystem::adjust_temperature: the three arms of the match on
\* partial_cmp (Less, Greater, Equal).
AdjustTemperature ==
    \/ /\ system.current_temperature < system.desired_temperature
       /\ system' = [system EXCEPT !.current_temperature = @ + 50]
       /\ climate_out' = "Heating up"
    \/ /\ system.current_temperature > system.desired_temperature
       /\ system' = [system EXCEPT !.current_temperature = @ - 50]
       /\ climate_out' = "Cooling down"
    \/ /\ system.current_temperature = system.desired_temperature
       /\ system' = system
       /\ climate_out' = "Desired temperature reached"

SimulateExternalConditionsLeak ==
    \E change \in ExternalChanges, desired \in DesiredSamples :
        system' = [system EXCEPT !.external_temperature = @ + change,
                                 !.desired_temperature = desired,
                                 !.current_temperature =
                                     IF system.external_temperature + change < @
                                     THEN @ - 50 ELSE @]

\* ClimateControlSystem::simulate_external_conditions
SimulateExternalConditions ==
    \E change \in ExternalChanges, desired \in DesiredSamples :
        system' = [system EXCEPT !.external_temperature = @ + change,
                                 !.desired_temperature = desired]

StabilizedSigned(s) == s.current_temperature - s.desired_temperature < 10

\* The exit test of run_simulation: (current - desired).abs() < 0.1
Stabilized(s) == Abs(s.current_temperature - s.desired_temperature) < 10

\* run_simulation, one action per step of the loop body.
SimAdjust ==
    /\ climate_pc = "adjust"
    /\ AdjustTemperature
    /\ climate_pc' = "resample"
    /\ UNCHANGED <<resamples, first_iteration, start_temperature, adjust_calls>>
    /\ UNCHANGED <<vehicle_vars, odometer_vars, tpms_vars>>

SimResample ==
    /\ climate_pc = "resample"
    /\ \/ /\ resamples < MaxResamples          \* gen_bool(0.2) is true
          /\ SimulateExternalConditions
          /\ resamples' = resamples + 1
       \/ /\ UNCHANGED <<system, resamples>>   \* gen_bool(0.2) is false
    /\ climate_pc' = "check"
    /\ UNCHANGED <<climate_out, first_iteration, start_temperature, adjust_calls>>
    /\ UNCHANGED <<vehicle_vars, odometer_vars, tpms_vars>>

SimCheck ==
    /\ climate_pc = "check"
    /\ climate_pc' = IF Stabilized(system) THEN "done" ELSE "adjust"
    /\ first_iteration' = (first_iteration /\ Stabilized(system))
    /\ UNCHANGED <<system, climate_out, resamples, start_temperature, adjust_calls>>
    /\ UNCHANGED <<vehicle_vars, odometer_vars, tpms_vars>>

\* adjust_temperature called directly on a system whose desired temperature
\* is left alone.
AdjustCall ==
    /\ climate_pc = "api"
    /\ adjust_calls < MaxAdjustCalls
    /\ AdjustTemperature
    /\ adjust_calls' = adjust_calls + 1
    /\ UNCHANGED <<climate_pc, resamples, first_iteration, start_temperature>>
    /\ UNCHANGED <<vehicle_vars, odometer_vars, tpms_vars>>

(***************************************************************************)
(* Tire pressure monitoring system                                         *)
(***************************************************************************)

\* main.rs: `for _ in 0..10`
NumIterations == 10

\* Bounds for the calls made directly on a TPMS: tires of a sampled TPMS and
\* simulate_pressure_change calls.
MaxTires == 2
MaxChanges == 2

\* main.rs: safe_pressure = 30.0 and tire_pressures = [32.0, 28.5, 31.0, 29.0],
\* in quarters of a PSI.
MainSafePressure == 4 * 30
MainTirePressures == <<128, 114, 124, 116>>

\* Sampled arguments of TPMS::new: pressures just below, at and just above the
\* sampled thresholds.
SafePressures == {MainSafePressure}
TirePressureSamples == {119, 120, 121}

\* One more argument of TPMS::new: a single tire at 0.25 PSI.
NearlyFlat == <<1>>

\* Samples of gen_range(-0.5..0.5): for direct calls, and for main's ten ticks.
PressureChanges == {-2, 0, 1}
MainPressureChanges == {-2, 1}

TireNewUnsafe(pressure) == [pressure |-> pressure, is_safe |-> FALSE]

\* Tire::new
TireNew(pressure) == [pressure |-> pressure, is_safe |-> TRUE]

CheckPressureAtOrBelow(tire, safe_pressure) ==
    IF tire.pressure <= safe_pressure
    THEN [tire EXCEPT !.is_safe = FALSE]
    ELSE [tire EXCEPT !.is_safe = TRUE]

\* Tire::check_pressure
CheckPressure(tire, safe_pressure) ==
    IF tire.pressure < safe_pressure
    THEN [tire EXCEPT !.is_safe = FALSE]
    ELSE [tire EXCEPT !.is_safe = TRUE]

\* Tire::status
Status(tire) == IF tire.is_safe THEN "Safe" ELSE "Unsafe"

AdjustPressureFloored(tire, delta) ==
    [tire EXCEPT !.pressure = IF @ + delta < 0 THEN 0 ELSE @ + delta]

\* Tire::adjust_pressure
AdjustPressure(tire, delta) == [tire EXCEPT !.pressure = @ + delta]

\* TPMS::new
TPMSNew(safe_pressure, tire_pressures) ==
    [tires |-> [i \in 1..Len(tire_pressures) |-> TireNew(tire_pressures[i])],
     safe_pressure |-> safe_pressure,
     dtc_triggered |-> FALSE]

\* The for loop of check_all_tires, from tire i on.
RECURSIVE CheckTiresFrom(_, _)
CheckTiresFrom(t, i) ==
    IF i > Len(t.tires) THEN t
    ELSE LET tire == CheckPressure(t.tires[i], t.safe_pressure)
         IN CheckTiresFrom([t EXCEPT !.tires[i] = tire,
                                     !.dtc_triggered = IF ~tire.is_safe THEN TRUE ELSE @],
                           i + 1)

CheckAllTiresNoReset(t) == CheckTiresFrom(t, 1)

\* The loop with the flag test before the tire's own check (a stale is_safe).
RECURSIVE CheckTiresStaleFrom(_, _)
CheckTiresStaleFrom(t, i) ==
    IF i > Len(t.tires) THEN t
    ELSE LET tire == CheckPressure(t.tires[i], t.safe_pressure)
         IN CheckTiresStaleFrom(
                [t EXCEPT !.tires[i] = tire,
                          !.dtc_triggered = IF ~t.tires[i].is_safe THEN TRUE ELSE @],
                i + 1)

CheckAllTiresStale(t) == CheckTiresStaleFrom([t EXCEPT !.dtc_triggered = FALSE], 1)

\* TPMS::check_all_tires
CheckAllTires(t) == CheckTiresFrom([t EXCEPT !.dtc_triggered = FALSE], 1)

\* TPMS::is_dtc_triggered
IsDtcTriggered(t) == t.dtc_triggered

\* TPMS::display_warnings: one line per tire, its status and its pressure.
DisplayWarnings(t) ==
    [i \in 1..Len(t.tires) |->
        [status |-> Status(t.tires[i]), pressure |-> t.tires[i].pressure]]

\* TPMS::simulate_pressure_change with the per-tire draws `deltas`.
SimulatePressureChange(t, deltas) ==
    [t EXCEPT !.tires = [i \in 1..Len(t.tires) |-> AdjustPressure(t.tires[i], deltas[i])]]

\* Calls made directly on a TPMS, in any order.
CheckAllTiresCall ==
    /\ tpms_pc = "api"
    /\ tpms' = CheckAllTires(tpms)
    /\ last_call' = IF last_call \in {"check", "recheck"} THEN "recheck" ELSE "check"
    /\ prev_dtc' = tpms.dtc_triggered
    /\ UNCHANGED <<changes, tpms_pc, tpms_iter, displayed, dtc_report>>
    /\ UNCHANGED tpms_history
    /\ UNCHANGED <<vehicle_vars, odometer_vars, climate_vars>>

SimulatePressureChangeCall ==
    /\ tpms_pc = "api"
    /\ changes < MaxChanges
    /\ \E deltas \in [1..Len(tpms.tires) -> PressureChanges] :
          /\ tpms' = SimulatePressureChange(tpms, deltas)
          /\ drift' = [i \in 1..Len(tpms.tires) |-> drift[i] + deltas[i]]
    /\ UNCHANGED initial_pressures
    /\ last_call' = "change"
    /\ prev_dtc' = tpms.dtc_triggered
    /\ changes' = changes + 1
    /\ UNCHANGED <<tpms_pc, tpms_iter, displayed, dtc_report>>
    /\ UNCHANGED <<vehicle_vars, odometer_vars, climate_vars>>

MainForInclusive ==
    /\ tpms_pc = "for"
    /\ IF tpms_iter <= NumIterations
       THEN tpms_pc' = "check" /\ tpms_iter' = tpms_iter + 1
       ELSE tpms_pc' = "done" /\ tpms_iter' = tpms_iter
    /\ UNCHANGED <<tpms, last_call, prev_dtc, changes, displayed, dtc_report>>
    /\ UNCHANGED tpms_history
    /\ UNCHANGED <<vehicle_vars, odometer_vars, climate_vars>>

\* main of the tire monitor, one action per step of the loop body.
MainFor ==
    /\ tpms_pc = "for"
    /\ IF tpms_iter < NumIterations
       THEN tpms_pc' = "check" /\ tpms_iter' = tpms_iter + 1
       ELSE tpms_pc' = "done" /\ tpms_iter' = tpms_iter
    /\ UNCHANGED <<tpms, last_call, prev_dtc, changes, displayed, dtc_report>>
    /\ UNCHANGED tpms_history
    /\ UNCHANGED <<vehicle_vars, odometer_vars, climate_vars>>

MainCheckSkipped ==
    /\ tpms_pc = "check"
    /\ tpms_pc' = "display"
    /\ UNCHANGED <<tpms, last_call, prev_dtc>>
    /\ UNCHANGED <<changes, tpms_iter, displayed, dtc_report>>
    /\ UNCHANGED tpms_history
    /\ UNCHANGED <<vehicle_vars, odometer_vars, climate_vars>>

MainCheck ==
    /\ tpms_pc = "check"
    /\ tpms' = CheckAllTires(tpms)
    /\ last_call' = IF last_call \in {"check", "recheck"} THEN "recheck" ELSE "check"
    /\ prev_dtc' = tpms.dtc_triggered
    /\ tpms_pc' = "display"
    /\ UNCHANGED <<changes, tpms_iter, displayed, dtc_report>>
    /\ UNCHANGED tpms_history
    /\ UNCHANGED <<vehicle_vars, odometer_vars, climate_vars>>

MainDisplay ==
    /\ tpms_pc = "display"
    /\ displayed' = DisplayWarnings(tpms)
    /\ tpms_pc' = "report"
    /\ UNCHANGED <<tpms, last_call, prev_dtc, changes, tpms_iter, dtc_report>>
    /\ UNCHANGED tpms_history
    /\ UNCHANGED <<vehicle_vars, odometer_vars, climate_vars>>

MainReport ==
    /\ tpms_pc = "report"
    /\ dtc_report' = IF IsDtcTriggered(tpms) THEN "DTC Triggered" ELSE "All tires safe"
    /\ tpms_pc' = "change"
    /\ UNCHANGED <<tpms, last_call, prev_dtc, changes, tpms_iter, displayed>>
    /\ UNCHANGED tpms_history
    /\ UNCHANGED <<vehicle_vars, odometer_vars, climate_vars>>

MainChange ==
    /\ tpms_pc = "change"
    /\ \E deltas \in [1..Len(tpms.tires) -> MainPressureChanges] :
          /\ tpms' = SimulatePressureChange(tpms, deltas)
          /\ drift' = [i \in 1..Len(tpms.tires) |-> drift[i] + deltas[i]]
    /\ UNCHANGED initial_pressures
    /\ last_call' = "change"
    /\ prev_dtc' = tpms.dtc_triggered
    /\ changes' = changes + 1
    /\ tpms_pc' = "for"
    /\ UNCHANGED <<tpms_iter, displayed, dtc_report>>
    /\ UNCHANGED <<vehicle_vars, odometer_vars, climate_vars>>

(***************************************************************************)
(* Specifications                                                          *)
(***************************************************************************)

RoadIdle ==
    /\ road_pc = "idle"
    /\ road_condition = "none"
    /\ traction = 0
    /\ stopping_distance = [finite |-> TRUE, value |-> 0]

VehicleIdle == vehicle = VehicleNew /\ RoadIdle

OdometerMainIdle ==
    /\ odo_pc = "idle"
    /\ hours_passed = 0
    /\ time_data = EmptyVec
    /\ distance_data = EmptyVec
    /\ trip_data = EmptyVec
    /\ fuel_data = EmptyVec

OdometerIdle == odometer = OdometerNew(15) /\ odo_calls = <<>> /\ OdometerMainIdle

ClimateIdle ==
    /\ system = ClimateControlSystemNew(2000, 1500)
    /\ climate_pc = "idle"
    /\ climate_out = "none"
    /\ resamples = 0
    /\ first_iteration = TRUE
    /\ start_temperature = 2000
    /\ adjust_calls = 0

TpmsIdle ==
    /\ tpms = TPMSNew(MainSafePressure, MainTirePressures)
    /\ last_call = "new"
    /\ prev_dtc = FALSE
    /\ changes = 0
    /\ initial_pressures = MainTirePressures
    /\ drift = [i \in 1..Len(MainTirePressures) |-> 0]
    /\ tpms_pc = "idle"
    /\ tpms_iter = 0
    /\ displayed = <<>>
    /\ dtc_report = "none"

\* Vehicle::new, then the three update methods in any order.
VehicleInit == vehicle = VehicleNew /\ RoadIdle /\ OdometerIdle /\ ClimateIdle /\ TpmsIdle
VehicleNext == UpdateSpeed \/ UpdateRoadSlope \/ UpdateTireCondition
SpecVehicle == VehicleInit /\ [][VehicleNext]_vars

\* run_simulation of the road monitor: Vehicle::new, then the loop.
RoadSimInit ==
    /\ vehicle = VehicleNew
    /\ road_pc = "start"
    /\ road_condition = "none"
    /\ traction = 0
    /\ stopping_distance = [finite |-> TRUE, value |-> 0]
    /\ OdometerIdle /\ ClimateIdle /\ TpmsIdle
RoadSimNext == RoadTick
SpecRoadSim == RoadSimInit /\ [][RoadSimNext]_vars

\* Odometer::new, then drive and reset_trip_meter in any order.
OdometerInit ==
    /\ \E fuel_efficiency \in FuelEfficiencies : odometer = OdometerNew(fuel_efficiency)
    /\ odo_calls = <<>>
    /\ OdometerMainIdle
    /\ VehicleIdle /\ ClimateIdle /\ TpmsIdle
OdometerNext == DriveCall \/ ResetTripMeterCall
SpecOdometer == OdometerInit /\ [][OdometerNext]_vars

\* main of the odometer: Odometer::new(15.0), the while loop, the reset, the plot.
OdometerMainInit ==
    /\ odometer = OdometerNew(15)
    /\ odo_calls = <<>>
    /\ odo_pc = "while"
    /\ hours_passed = 0
    /\ time_data = EmptyVec
    /\ distance_data = EmptyVec
    /\ trip_data = EmptyVec
    /\ fuel_data = EmptyVec
    /\ VehicleIdle /\ ClimateIdle /\ TpmsIdle
OdometerMainNext == OdoMainDrive \/ OdoMainExit \/ OdoMainReset \/ OdoMainPlot
SpecOdometerMain == OdometerMainInit /\ [][OdometerMainNext]_vars

\* A climate system with a fixed desired temperature and a starting temperature
\* up to MaxK steps (and a grid offset) away from it; then adjust_temperature.
ClimateApiInit ==
    /\ \E desired \in DesiredSamples, j \in (-MaxK)..MaxK, off \in GridOffsets :
          /\ system = [current_temperature |-> desired + 50 * j + off,
                       desired_temperature |-> desired,
                       external_temperature |-> 1500]
          /\ start_temperature = desired + 50 * j + off
    /\ climate_pc = "api"
    /\ climate_out = "none"
    /\ resamples = 0
    /\ first_iteration = TRUE
    /\ adjust_calls = 0
    /\ VehicleIdle /\ OdometerIdle /\ TpmsIdle
ClimateApiNext == AdjustCall
SpecClimateApi == ClimateApiInit /\ [][ClimateApiNext]_vars

\* main of climate_control: new(20.0, 15.0), then run_simulation.
ClimateInit ==
    /\ system = ClimateControlSystemNew(2000, 1500)
    /\ climate_pc = "adjust"
    /\ climate_out = "none"
    /\ resamples = 0
    /\ first_iteration = TRUE
    /\ start_temperature = 2000
    /\ adjust_calls = 0
    /\ VehicleIdle /\ OdometerIdle /\ TpmsIdle
ClimateNext == SimAdjust \/ SimResample \/ SimCheck
SpecClimate == ClimateInit /\ [][ClimateNext]_vars

\* run_simulation is sequential code that keeps running until its break: a
\* step that can be taken is taken.
SpecClimateFair == ClimateInit /\ [][ClimateNext]_vars /\ WF_vars(ClimateNext)

\* TPMS::new on main's arguments or on sampled ones, then check_all_tires and
\* simulate_pressure_change in any order.
TpmsArguments ==
    {<<MainSafePressure, MainTirePressures>>, <<MainSafePressure, NearlyFlat>>}
        \cup { <<sp, tp>> : sp \in SafePressures,
                            tp \in UNION {[1..n -> TirePressureSamples] : n \in 0..MaxTires} }

TpmsInit ==
    /\ \E args \in TpmsArguments :
          /\ tpms = TPMSNew(args[1], args[2])
          /\ initial_pressures = args[2]
          /\ drift = [i \in 1..Len(args[2]) |-> 0]
    /\ last_call = "new"
    /\ prev_dtc = FALSE
    /\ changes = 0
    /\ tpms_pc = "api"
    /\ tpms_iter = 0
    /\ displayed = <<>>
    /\ dtc_report = "none"
    /\ VehicleIdle /\ OdometerIdle /\ ClimateIdle
TpmsNext == CheckAllTiresCall \/ SimulatePressureChangeCall
SpecTPMS == TpmsInit /\ [][TpmsNext]_vars

\* main of the tire monitor.
TpmsMainInit ==
    /\ tpms = TPMSNew(MainSafePressure, MainTirePressures)
    /\ last_call = "new"
    /\ prev_dtc = FALSE
    /\ changes = 0
    /\ initial_pressures = MainTirePressures
    /\ drift = [i \in 1..Len(MainTirePressures) |-> 0]
    /\ tpms_pc = "for"
    /\ tpms_iter = 0
    /\ displayed = <<>>
    /\ dtc_report = "none"
    /\ VehicleIdle /\ OdometerIdle /\ ClimateIdle
TpmsMainNext == MainFor \/ MainCheck \/ MainDisplay \/ MainReport \/ MainChange
SpecTPMSMain == TpmsMainInit /\ [][TpmsMainNext]_vars

(***************************************************************************)
(* Properties                                                              *)
(***************************************************************************)

\* C1: from Vehicle::new(), after any sequence of update_speed,
\* update_road_slope and update_tire_condition calls, speed is in [0, 150],
\* road_slope in [-10, 10] and tire_condition in [0.5, 1.0].
ThmC1_ClampedChannels ==
    /\ 0 <= vehicle.speed /\ vehicle.speed <= 150
    /\ -10 <= vehicle.road_slope /\ vehicle.road_slope <= 10
    /\ 50 <= vehicle.tire_condition /\ vehicle.tire_condition <= 100

\* Every channel sits on a limit its clamp enforces.
WitC1_AtLimits ==
    vehicle.speed = 150 /\ vehicle.road_slope = -10 /\ vehicle.tire_condition = 50

\* Sum of speed * hours over the drive calls of a call history.
RECURSIVE SumDistances(_)
SumDistances(calls) ==
    IF calls = <<>> THEN 0
    ELSE SumDistances(SubSeq(calls, 1, Len(calls) - 1))
            + (IF calls[Len(calls)].op = "drive"
               THEN calls[Len(calls)].speed * calls[Len(calls)].hours
               ELSE 0)

\* The calls made after the most recent reset_trip_meter (all, if none).
SinceLastReset(calls) ==
    LET resets == {i \in 1..Len(calls) : calls[i].op = "reset"}
        last == IF resets = {} THEN 0 ELSE CHOOSE i \in resets : \A j \in resets : j <= i
    IN SubSeq(calls, last + 1, Len(calls))

\* C2: after any sequence of drive and reset_trip_meter calls on a new
\* Odometer, total_kilometers is the sum of speed * hours over all drive calls
\* and trip_meter the sum over the drive calls since the most recent reset.
ThmC2_AccumulatorRule ==
    /\ odometer.total_kilometers = SumDistances(odo_calls)
    /\ odometer.trip_meter = SumDistances(SinceLastReset(odo_calls))

\* A drive, a reset and another drive, the trip differing from the total.
WitC2_DriveResetDrive ==
    /\ Len(odo_calls) >= 3
    /\ odo_calls[1].op = "drive" /\ odo_calls[2].op = "reset" /\ odo_calls[3].op = "drive"
    /\ odometer.trip_meter # 0
    /\ odometer.trip_meter # odometer.total_kilometers

\* C3: reset_trip_meter sets trip_meter to 0 and leaves total_kilometers,
\* fuel_consumed and fuel_efficiency unchanged, whatever the state.
ThmC3_ResetFrame ==
    [][(odo_calls' # odo_calls /\ odo_calls'[Len(odo_calls')].op = "reset")
          => /\ odometer'.trip_meter = 0
             /\ odometer'.total_kilometers = odometer.total_kilometers
             /\ odometer'.fuel_consumed = odometer.fuel_consumed
             /\ odometer'.fuel_efficiency = odometer.fuel_efficiency]_vars

\* A reset made after driving: the trip is 0, the total and the fuel are not.
WitC3_ResetAfterDrive ==
    /\ odo_calls # <<>>
    /\ odo_calls[Len(odo_calls)].op = "reset"
    /\ odometer.trip_meter = 0
    /\ odometer.total_kilometers > 0
    /\ odometer.fuel_consumed > 0

\* C4: with desired_temperature fixed and current_temperature starting k
\* half-degree steps below it (k >= 0), fewer than k calls of
\* adjust_temperature leave current below desired, k calls bring it to desired,
\* and every further call leaves it there and reports "reached"; from 20.0 and
\* 25.0 that is 10 calls, and the 11th changes nothing.
ThmC4_ThresholdRule ==
    LET gap == system.desired_temperature - start_temperature
        k == gap \div 50
    IN (climate_pc = "api" /\ gap >= 0 /\ gap % 50 = 0) =>
          /\ adjust_calls < k =>
                /\ system.current_temperature = start_temperature + 50 * adjust_calls
                /\ system.current_temperature < system.desired_temperature
          /\ adjust_calls >= k => system.current_temperature = system.desired_temperature
          /\ adjust_calls > k => climate_out = "Desired temperature reached"
          /\ (start_temperature = 2000 /\ system.desired_temperature = 2500) =>
                /\ (system.current_temperature = 2500) <=> (adjust_calls >= 10)
                /\ adjust_calls >= 11 => climate_out = "Desired temperature reached"

\* The 11th call from 20.0 towards 25.0.
WitC4_EleventhTick ==
    /\ climate_pc = "api"
    /\ start_temperature = 2000
    /\ system.desired_temperature = 2500
    /\ adjust_calls = 11
    /\ system.current_temperature = 2500
    /\ climate_out = "Desired temperature reached"

Below(t, i) == t.tires[i].pressure < t.safe_pressure
Checked == last_call \in {"check", "recheck"}
Pressures(t) == [i \in 1..Len(t.tires) |-> t.tires[i].pressure]
Statuses(t) == [i \in 1..Len(t.tires) |-> Status(t.tires[i])]

\* C5: right after check_all_tires, a tire is Unsafe exactly when its pressure
\* is strictly below safe_pressure, and is_dtc_triggered is true exactly when
\* some tire is Unsafe; [32.0, 28.5, 31.0, 29.0] against 30.0 gives
\* [Safe, Unsafe, Safe, Unsafe] and a DTC.
ThmC5_DiagnosticEvaluation ==
    Checked =>
        /\ \A i \in 1..Len(tpms.tires) : (Status(tpms.tires[i]) = "Unsafe") <=> Below(tpms, i)
        /\ IsDtcTriggered(tpms) <=> (\E i \in 1..Len(tpms.tires) : Status(tpms.tires[i]) = "Unsafe")
        /\ (Pressures(tpms) = MainTirePressures /\ tpms.safe_pressure = MainSafePressure) =>
              /\ Statuses(tpms) = <<"Safe", "Unsafe", "Safe", "Unsafe">>
              /\ IsDtcTriggered(tpms)

\* The check of main's pressures.
WitC5_MainPressuresChecked ==
    /\ last_call = "check"
    /\ Pressures(tpms) = MainTirePressures
    /\ Statuses(tpms) = <<"Safe", "Unsafe", "Safe", "Unsafe">>
    /\ IsDtcTriggered(tpms)

\* The flags agree with the pressures of the state they are read in.
FlagsAgree(t) ==
    /\ IsDtcTriggered(t) <=> (\E i \in 1..Len(t.tires) : Below(t, i))
    /\ \A i \in 1..Len(t.tires) : (Status(t.tires[i]) = "Unsafe") <=> Below(t, i)

\* C6 as stated: in every reachable state of a TPMS, also right after
\* TPMS::new and right after simulate_pressure_change, is_dtc_triggered and
\* every status agree with the current pressures.
CexC6_FlagsAlwaysAgree == FlagsAgree(tpms)

\* C6 as amended: the flags are stored fields that only check_all_tires
\* writes. They agree with the current pressures in every state reached by
\* check_all_tires with no pressure change since; TPMS::new leaves every tire
\* Safe and the DTC false whatever the pressures, and
\* simulate_pressure_change leaves the flags as they were.
ThmC6_FlagsStored ==
    /\ [](Checked => FlagsAgree(tpms))
    /\ [](last_call = "new" =>
             /\ ~IsDtcTriggered(tpms)
             /\ \A i \in 1..Len(tpms.tires) : Status(tpms.tires[i]) = "Safe")
    /\ [][last_call' = "change" =>
             /\ IsDtcTriggered(tpms') = IsDtcTriggered(tpms)
             /\ Statuses(tpms') = Statuses(tpms)]_vars

\* After a pressure change the stored flags disagree with the pressures: a
\* DTC stands though no tire is below the threshold.
WitC6_StaleFlags ==
    /\ last_call = "change"
    /\ IsDtcTriggered(tpms)
    /\ \A i \in 1..Len(tpms.tires) : ~Below(tpms, i)

\* C7: a second check_all_tires with no pressure change in between leaves the
\* DTC and every is_safe as the first call left them, and no call of
\* check_all_tires changes a pressure or safe_pressure.
ThmC7_CheckIdempotent ==
    [][/\ last_call' \in {"check", "recheck"} =>
             /\ Pressures(tpms') = Pressures(tpms)
             /\ tpms'.safe_pressure = tpms.safe_pressure
       /\ last_call' = "recheck" =>
             /\ tpms'.dtc_triggered = tpms.dtc_triggered
             /\ \A i \in 1..Len(tpms.tires) : tpms'.tires[i].is_safe = tpms.tires[i].is_safe
             /\ Len(tpms'.tires) = Len(tpms.tires)]_vars

\* Two checks in a row after a pressure change, with a DTC.
WitC7_CheckedTwice ==
    last_call = "recheck" /\ changes > 0 /\ IsDtcTriggered(tpms)

\* A TPMS with the pressures and threshold of t and other stored flags.
WithFlags(t, safe, dtc) ==
    [t EXCEPT !.tires = [i \in 1..Len(t.tires) |-> [t.tires[i] EXCEPT !.is_safe = safe[i]]],
              !.dtc_triggered = dtc]

\* C8: the flags check_all_tires produces depend on the pressures and the
\* threshold only: any two TPMS with the pressures and threshold of a
\* reachable one, whatever their earlier flags, have the same flags after
\* check_all_tires; so a DTC standing before a check is cleared by it when
\* every pressure is at or above the threshold.
ThmC8_Memoryless ==
    /\ \A safe \in [1..Len(tpms.tires) -> BOOLEAN], dtc \in BOOLEAN :
          CheckAllTires(WithFlags(tpms, safe, dtc)) = CheckAllTires(tpms)
    /\ (Checked /\ prev_dtc /\ \A i \in 1..Len(tpms.tires) : ~Below(tpms, i))
          => ~IsDtcTriggered(tpms)

\* A check that cleared a DTC raised by an earlier one.
WitC8_DtcCleared ==
    last_call = "check" /\ prev_dtc /\ ~IsDtcTriggered(tpms) /\ Len(tpms.tires) > 0

\* C9 as stated: the tire monitor's loop has no stop condition of its own and
\* never reaches its end-of-simulation state.
CexC9_NeverDone == tpms_pc # "done"

\* C9 as amended: the loop is bounded. It starts at most 10 ticks (check,
\* display, report, pressure change), and main reaches its end-of-simulation
\* state by itself, after exactly 10 completed ticks.
ThmC9_TenIterations ==
    /\ tpms_iter <= NumIterations
    /\ tpms_pc = "done" => (tpms_iter = NumIterations /\ changes = NumIterations)
    /\ tpms_pc = "for" => changes = tpms_iter
    /\ tpms_pc \in {"check", "display", "report", "change"} => changes = tpms_iter - 1

\* main has printed "Simulation completed."
WitC9_Completed == tpms_pc = "done" /\ changes = NumIterations

\* C10: run_simulation leaves its loop at the end of an iteration exactly when
\* |current - desired| < 0.1 there (after adjust_temperature and after a
\* resample of that iteration), and goes on otherwise; so once the loop has
\* been left, current is within 0.1 of the desired temperature in force.
ThmC10_ConvergenceStop ==
    /\ [](climate_pc = "done" =>
             /\ system.current_temperature - system.desired_temperature < 10
             /\ system.desired_temperature - system.current_temperature < 10)
    /\ [][(climate_pc = "check" /\ climate_pc' # "check") =>
             /\ climate_pc' \in {"done", "adjust"}
             /\ (climate_pc' = "done") <=>
                   /\ system.current_temperature - system.desired_temperature < 10
                   /\ system.desired_temperature - system.current_temperature < 10
             /\ system' = system]_vars

\* The loop left after a resample, within 0.1 of the desired temperature but
\* not at it.
WitC10_StoppedNearDesired ==
    /\ climate_pc = "done"
    /\ resamples > 0
    /\ system.current_temperature # system.desired_temperature

\* C11: the odometer's loop ends after exactly 48 steps of 0.5 h
\* (hours_passed 0.5, 1.0, ..., 24.0); at every loop boundary and at the exit
\* the time, distance, trip and fuel sequences have one entry per completed
\* step, and the distance and fuel sequences never decrease.
ThmC11_FixedIterationCount ==
    /\ [](/\ time_data.len = distance_data.len
          /\ time_data.len = trip_data.len
          /\ time_data.len = fuel_data.len
          /\ hours_passed = 5 * time_data.len
          /\ time_data.len <= 48
          /\ time_data.last = hours_passed
          /\ odo_pc \in {"reset", "plot", "done"} =>
                (time_data.len = 48 /\ hours_passed = 240))
    /\ [][time_data' # time_data =>
             /\ time_data'.len = time_data.len + 1
             /\ distance_data'.last >= distance_data.last
             /\ fuel_data'.last >= fuel_data.last]_vars

\* main has run to its end.
WitC11_LoopFinished == odo_pc = "done" /\ time_data.len = 48 /\ odometer.trip_meter = 0

\* C12: once the desired temperature is no longer resampled (run_simulation
\* resamples it at most MaxResamples times here), the loop is eventually left,
\* for every current temperature on the half-degree grid through 20.0 and
\* every desired temperature in [18.0, 26.0).
CexC12_EventuallyStabilized == <>(climate_pc = "done")

\* C13: in every reachable state of the road-condition simulation and for
\* each road factor (Dry 1.0, Wet 0.7, Icy 0.3) the traction of
\* adjust_for_condition is strictly positive, so calculate_stopping_distance
\* does not divide by zero and gives a finite, non-negative distance that is
\* 0 exactly when speed is 0; so are the values each tick computes.
ThmC13_StoppingDistanceDefined ==
    /\ \A condition \in RoadConditions :
          LET t == AdjustForCondition(vehicle, RoadFactor(condition))
              d == CalculateStoppingDistance(vehicle, t)
          IN /\ t > 0
             /\ d.finite
             /\ d.value >= 0
             /\ (d.value = 0) <=> (vehicle.speed = 0)
    /\ road_pc = "loop" =>
          /\ traction > 0
          /\ traction = AdjustForCondition(vehicle, RoadFactor(road_condition))
          /\ stopping_distance.finite
          /\ stopping_distance.value >= 0
          /\ (stopping_distance.value = 0) <=> (vehicle.speed = 0)

\* A tick on ice, uphill at the steepest slope, with the vehicle at rest.
WitC13_AtRestOnIce ==
    /\ road_pc = "loop"
    /\ road_condition = "Icy"
    /\ vehicle.road_slope = 10
    /\ vehicle.speed = 0
    /\ stopping_distance = [finite |-> TRUE, value |-> 0]

\* C14: tire pressure is unclamped. Each simulate_pressure_change adds to
\* every tire its own delta from [-0.5, 0.5) and applies no bound, so a
\* pressure is its initial value plus the deltas drawn, within 0.5 * n of the
\* initial value after n calls, and it goes below 0 when the deltas take it
\* there.
ThmC14_PressureUnclamped ==
    /\ Len(tpms.tires) = Len(initial_pressures)
    /\ \A i \in 1..Len(tpms.tires) :
          /\ tpms.tires[i].pressure = initial_pressures[i] + drift[i]
          /\ initial_pressures[i] - 2 * changes <= tpms.tires[i].pressure
          /\ tpms.tires[i].pressure < initial_pressures[i] + 2 * changes \/ changes = 0

\* A pressure below 0 after a pressure change.
WitC14_NegativePressure ==
    /\ changes > 0
    /\ \E i \in 1..Len(tpms.tires) : tpms.tires[i].pressure < 0

\* The drive calls of a call history all have non-negative speed and hours.
NonNegativeCalls(calls) ==
    \A i \in 1..Len(calls) : calls[i].speed >= 0 /\ calls[i].hours >= 0

\* Number of drive calls in a call history.
DriveCount(calls) == Cardinality({i \in 1..Len(calls) : calls[i].op = "drive"})

ThmC16_ClimateFrame ==
    [][/\ climate_pc = "adjust" =>
             /\ system'.current_temperature - system.current_temperature \in {-50, 0, 50}
             /\ system'.current_temperature =
                   IF system.current_temperature < system.desired_temperature
                   THEN system.current_temperature + 50
                   ELSE IF system.current_temperature > system.desired_temperature
                        THEN system.current_temperature - 50
                        ELSE system.current_temperature
             /\ system'.desired_temperature = system.desired_temperature
             /\ system'.external_temperature = system.external_temperature
       /\ climate_pc = "resample" =>
             system'.current_temperature = system.current_temperature
       /\ climate_pc = "check" => system' = system]_vars

\* After a resample that changed the external temperature, an adjustment has
\* moved the current temperature.
WitC16_AdjustedAfterExternalChange ==
    /\ climate_pc = "resample"
    /\ resamples > 0
    /\ system.external_temperature # 1500
    /\ system.current_temperature # start_temperature
    /\ climate_out \in {"Heating up", "Cooling down"}

\* C17: starting from ClimateControlSystem::new(20.0, 15.0), in every
\* reachable state of run_simulation desired_temperature is in [18.0, 26.0)
\* and current_temperature is in [18.0, 26.0], whatever the resamples.
ThmC17_CabinTemperatureBounded ==
    /\ 1800 <= system.desired_temperature
    /\ system.desired_temperature < 2600
    /\ 1800 <= system.current_temperature
    /\ system.current_temperature <= 2600

\* The current temperature at the upper end 26.0, above the desired one.
WitC17_AtUpperEnd ==
    /\ system.current_temperature = 2600
    /\ system.desired_temperature < 2600
    /\ resamples > 0

\* C18: ClimateControlSystem::new sets desired_temperature to the initial
\* temperature, so the first adjust_temperature leaves current_temperature
\* unchanged and reports that the desired temperature is reached, and
\* run_simulation exits at the end of its first iteration unless the desired
\* temperature was resampled in that iteration to a value at least 0.1 away
\* from the current one.
ThmC18_FreshSystemConverged ==
    /\ [](climate_out = "none" =>
             /\ climate_pc = "adjust"
             /\ system.desired_temperature = system.current_temperature)
    /\ [][/\ climate_out = "none" /\ climate_out' # "none" =>
                /\ system'.current_temperature = system.current_temperature
                /\ climate_out' = "Desired temperature reached"
          /\ first_iteration /\ climate_pc = "check" =>
                (climate_pc' = "done")
                   <=> ~(/\ resamples = 1
                         /\ Abs(system.current_temperature
                                   - system.desired_temperature) >= 10)]_vars

\* run_simulation has left its loop at the end of the first iteration, no
\* resample having been made.
WitC18_ExitAfterFirstIteration ==
    /\ first_iteration
    /\ climate_pc = "done"
    /\ resamples = 0
    /\ climate_out = "Desired temperature reached"

\* C19: tire wear is monotone. No step increases tire_condition, so from 0.9
\* it never exceeds 0.9, and once at the floor 0.5 it stays there; a step of
\* update_speed or update_road_slope (one that changes speed or road_slope)
\* leaves tire_condition unchanged.
ThmC19_TireWearMonotone ==
    /\ [](vehicle.tire_condition <= 90)
    /\ [][/\ vehicle'.tire_condition <= vehicle.tire_condition
          /\ vehicle.tire_condition = 50 => vehicle'.tire_condition = 50
          /\ (vehicle'.speed # vehicle.speed \/ vehicle'.road_slope # vehicle.road_slope)
                => vehicle'.tire_condition = vehicle.tire_condition]_vars

\* The tires worn down to the floor, speed and slope having changed as well.
WitC19_WornToFloor ==
    /\ vehicle.tire_condition = 50
    /\ vehicle.speed # 50
    /\ vehicle.road_slope # 0

\* C20: every iteration of the tire monitor's driver runs check_all_tires,
\* then display_warnings, then the DTC report, then simulate_pressure_change,
\* and no pressure changes between the check and the two reports; so each
\* displayed status and pressure, and the DTC reported, agree with the tire
\* pressures current when they are printed.
ThmC20_DriverOrdering ==
    /\ [](/\ tpms_pc \in {"display", "report", "change"} => FlagsAgree(tpms)
          /\ tpms_pc = "report" =>
                /\ Len(displayed) = Len(tpms.tires)
                /\ \A i \in 1..Len(tpms.tires) :
                      /\ displayed[i].pressure = tpms.tires[i].pressure
                      /\ (displayed[i].status = "Unsafe") <=> Below(tpms, i)
          /\ tpms_pc = "change" =>
                (dtc_report = "DTC Triggered")
                   <=> (\E i \in 1..Len(tpms.tires) : Below(tpms, i)))
    /\ [][/\ tpms_pc = "for" => tpms_pc' \in {"check", "done"}
          /\ tpms_pc = "check" =>
                tpms_pc' = "display" /\ Pressures(tpms') = Pressures(tpms)
          /\ tpms_pc = "display" => tpms_pc' = "report" /\ tpms' = tpms
          /\ tpms_pc = "report" => tpms_pc' = "change" /\ tpms' = tpms
          /\ tpms_pc = "change" => tpms_pc' = "for" /\ changes' = changes + 1]_vars

\* After pressure changes, an iteration has just reported that all tires are
\* safe, the DTC of the first iteration having been cleared.
WitC20_SafeReportAfterChanges ==
    /\ tpms_pc = "change"
    /\ changes > 0
    /\ dtc_report = "All tires safe"
    /\ \A i \in 1..Len(displayed) : displayed[i].status = "Safe"

=============================================================================
